---- MODULE Spec2Model ----
(***************************************************************************)
(* The WhatsApp webhook pipeline of chatbot-backend: whatsapp_webhook,    *)
(* process_webhook_entries, process_message, get_or_create_user and       *)
(* get_conversation_history (app/routers/whatsapp.py), the completion     *)
(* client (app/services/ai_service.py), the delivery client               *)
(* (app/services/whatsapp_service.py) and the two tables of               *)
(* app/models.py.  One action per await of a handler; the code between    *)
(* two awaits runs without interruption on the event loop and belongs to  *)
(* the action of the await that precedes it.                              *)
(***************************************************************************)
EXTENDS Integers, Sequences, FiniteSets, TLC

VARIABLES users, messages, now, inbox, faults,
          pc, items, cur, loc, response, steps, reads, calls, sent, resolved,
          overlapped

vars == <<users, messages, now, inbox, faults,
          pc, items, cur, loc, response, steps, reads, calls, sent, resolved,
          overlapped>>

(***************************************************************************)
(* Bounds of the model.                                                    *)
(***************************************************************************)
NumHandlers == 2      \* webhook requests that may overlap
MaxMsgs == 2          \* messages carried by one change of a payload
MaxFaults == 2        \* failures injected while one request is served
MaxRaceFaults == 1    \* failures injected while requests overlap
MaxStored == 11       \* Messages already stored for a user when a request arrives

Handlers == 1 .. NumHandlers

(***************************************************************************)
(* Values.  Python's None is the string "<None>"; a phone number is a      *)
(* sequence of characters, so that slicing and replace() act on it.        *)
(***************************************************************************)
None == "<None>"
NoPhone == <<None>>
NoUser == 0

Truthy(s) == s # None /\ s # ""

USER == "user"
ASSISTANT == "assistant"

WABA == "whatsapp_business_account"

Phone1 == <<"1", "5">>
Phone2 == <<"+", "4", "4">>

MAX_HISTORY_LENGTH == 10
HISTORY_LIMIT == 10

(***************************************************************************)
(* The completion client.                                                  *)
(***************************************************************************)
SYSTEM_PROMPT == "You are Dr. Health Assistant"
AI_TEXT == "Drink water and rest."
FALLBACK_AUTH == "Sorry, AI service authentication failed. Please contact support."
FALLBACK_RATE == "Sorry, too many requests. Please try again in a moment."
FALLBACK_CONNECT == "Sorry, I'm having trouble connecting. Please try again later."
FALLBACK_TIMEOUT == "Sorry, my response took too long. Please try again."
FALLBACK_ERROR == "Sorry, I encountered an error. Please try again later."

\* What the upstream call can do: an HTTP status, a timeout, a transport
\* error, or a 200 whose body has no choices[0].message.content.
UpstreamOk == "200"
UpstreamFailures == {"401", "429", "500", "timeout", "transport", "malformed"}
Upstream == {UpstreamOk} \cup UpstreamFailures

Last(s, n) == IF Len(s) <= n THEN s ELSE SubSeq(s, Len(s) - n + 1, Len(s))

Entry(role, content) == [role |-> role, content |-> content]

\* _build_messages without its last append.
_build_messages_history_only(current_message, history) ==
    <<Entry("system", SYSTEM_PROMPT)>> \o Last(history, MAX_HISTORY_LENGTH)

_build_messages(current_message, history) ==
    <<Entry("system", SYSTEM_PROMPT)>>
        \o Last(history, MAX_HISTORY_LENGTH)
        \o <<Entry(USER, current_message)>>

\* _handle_api_error without its 429 branch.
_handle_api_error_no_429(status_code) ==
    IF status_code = "401" THEN FALLBACK_AUTH
    ELSE FALLBACK_CONNECT

_handle_api_error(status_code) ==
    IF status_code = "401" THEN FALLBACK_AUTH
    ELSE IF status_code = "429" THEN FALLBACK_RATE
    ELSE FALLBACK_CONNECT

\* The value that stands for an exception leaving the client.
RAISED == "<raised>"

\* _call_groq_api without its except clause for httpx.TimeoutException.
_call_groq_api_timeout_uncaught(message, history, upstream) ==
    CASE upstream = "timeout" -> RAISED
      [] upstream \in {"transport", "malformed"} -> FALLBACK_ERROR
      [] upstream # UpstreamOk -> _handle_api_error(upstream)
      [] OTHER -> AI_TEXT

\* _call_groq_api without its last except clause.
_call_groq_api_uncaught(message, history, upstream) ==
    CASE upstream = "timeout" -> FALLBACK_TIMEOUT
      [] upstream \in {"transport", "malformed"} -> RAISED
      [] upstream # UpstreamOk -> _handle_api_error(upstream)
      [] OTHER -> AI_TEXT

_call_groq_api(message, history, upstream) ==
    CASE upstream = "timeout" -> FALLBACK_TIMEOUT
      [] upstream \in {"transport", "malformed"} -> FALLBACK_ERROR
      [] upstream # UpstreamOk -> _handle_api_error(upstream)
      [] OTHER -> AI_TEXT

generate_response(message, history, upstream) ==
    _call_groq_api(message, history, upstream)

(***************************************************************************)
(* The delivery client: send_message cleans the number it is given.        *)
(***************************************************************************)
RECURSIVE Remove(_, _)
Remove(s, c) ==
    IF s = <<>> THEN <<>>
    ELSE IF Head(s) = c THEN Remove(Tail(s), c)
    ELSE <<Head(s)>> \o Remove(Tail(s), c)

RECURSIVE StripLeft(_)
StripLeft(s) == IF s # <<>> /\ Head(s) = " " THEN StripLeft(Tail(s)) ELSE s

RECURSIVE StripRight(_)
StripRight(s) ==
    IF s # <<>> /\ s[Len(s)] = " " THEN StripRight(SubSeq(s, 1, Len(s) - 1)) ELSE s

CleanNumber(to_number) ==
    StripRight(StripLeft(Remove(Remove(to_number, "whatsapp:"), "+")))

(***************************************************************************)
(* Webhook payloads.  A body is what request.json() yields: kind          *)
(* "invalid_json" makes it raise, kind "array" is JSON that is no object. *)
(* body.entry is the list of entries, an entry is its list of changes, a  *)
(* change is value.messages and value.contacts.  A message is             *)
(* {id, from, type, text}: text = <<>> is a message with no "text" key,   *)
(* text = <<b>> one whose text.body is b.  A contact is its profile name. *)
(***************************************************************************)
Msg(id, from, type, text) == [id |-> id, from |-> from, type |-> type, text |-> text]

TextMsgs ==
    { Msg("wamid.A", Phone1, "text", <<"hi">>),
      Msg("wamid.B", Phone2, "text", <<"yo">>) }

SkippedMsgs ==
    { Msg("wamid.C", Phone1, "image", <<>>),
      Msg("wamid.D", Phone1, "text", <<"">>),
      Msg("wamid.E", Phone2, "text", <<>>) }

\* A text message with no "from": sender_phone is None.
BrokenMsgs == { Msg("wamid.F", NoPhone, "text", <<"hi">>) }

MsgPool == TextMsgs \cup SkippedMsgs \cup BrokenMsgs

ContactsPool == { <<>>, <<"">>, <<"Ann">>, <<"Bob">> }

SeqsUpTo(S, n) == UNION { [1 .. k -> S] : k \in 0 .. n }

Change(ms, cs) == [messages |-> ms, contacts |-> cs]

Body(kind, object, entry) == [kind |-> kind, object |-> object, entry |-> entry]

\* One entry with one change.
SimpleBodies(msgs, n, contacts) ==
    { Body("object", WABA, << <<Change(ms, cs)>> >>) :
        ms \in SeqsUpTo(msgs, n), cs \in contacts }

\* Two changes, in one entry or in two, each with its own contacts.
SplitBodies ==
    LET c1 == Change(<<Msg("wamid.A", Phone1, "text", <<"hi">>)>>, <<"Ann">>)
        c2(m, n) == Change(<<m>>, <<n>>)
    IN  UNION { { Body("object", WABA, << <<c1, c2(m, n)>> >>),
                  Body("object", WABA, << <<c1>>, <<c2(m, n)>> >>) } :
                m \in TextMsgs, n \in {"Ann", "Bob"} }

\* One change with the messages of two senders and a contact for each.
PairBodies ==
    { Body("object", WABA,
           << <<Change(<<Msg("wamid.A", Phone1, "text", <<"hi">>),
                         Msg("wamid.B", Phone2, "text", <<"yo">>)>>, cs)>> >>) :
        cs \in { <<"Ann", "Bob">>, <<"Bob", "Ann">> } }

OtherBodies ==
    { Body("invalid_json", None, <<>>),
      Body("array", None, <<>>),
      Body("object", None, <<>>),
      Body("object", "page", << <<Change(<<Msg("wamid.A", Phone1, "text", <<"hi">>)>>, <<>>)>> >>),
      Body("object", WABA, <<>>) }

\* Every run of messages with no contact or with one, every contact with
\* one text message.
Bodies ==
    SimpleBodies(MsgPool, MaxMsgs, {<<>>, <<"Bob">>})
        \cup SimpleBodies(TextMsgs, 1, ContactsPool)
        \cup SplitBodies \cup PairBodies \cup OtherBodies

\* The bodies of overlapping requests: one text message each.
ShortBodies ==
    { Body("object", WABA, << <<Change(<<m>>, cs)>> >>) :
        m \in TextMsgs, cs \in {<<>>, <<"Ann">>, <<"Bob">>} }

(***************************************************************************)
(* process_webhook_entries: the (message, contacts) pairs in the order    *)
(* the three nested loops reach them.                                      *)
(***************************************************************************)
Item(m, cs) == [msg |-> m, contacts |-> cs]

ChangeItems(change) ==
    [i \in 1 .. Len(change.messages) |-> Item(change.messages[i], change.contacts)]

\* The changes of an entry taken last to first.
RECURSIVE EntryItemsLastFirst(_)
EntryItemsLastFirst(changes) ==
    IF changes = <<>> THEN <<>>
    ELSE EntryItemsLastFirst(Tail(changes)) \o ChangeItems(Head(changes))

RECURSIVE EntryItems(_)
EntryItems(changes) ==
    IF changes = <<>> THEN <<>>
    ELSE ChangeItems(Head(changes)) \o EntryItems(Tail(changes))

RECURSIVE process_webhook_entries(_)
process_webhook_entries(entries) ==
    IF entries = <<>> THEN <<>>
    ELSE EntryItems(Head(entries)) \o process_webhook_entries(Tail(entries))

\* process_message, lines 128-147: what it extracts from a message.
MessageType(m) == m.type
MessageText(m) == IF m.text = <<>> THEN "" ELSE m.text[1]

\* The name of the last contact of the change.
SenderNameOfLast(contacts) == IF contacts = <<>> THEN None ELSE contacts[Len(contacts)]

\* process_message, lines 143-147: the profile name of contacts[0].
SenderName(contacts) == IF contacts = <<>> THEN None ELSE contacts[1]

\* process_message without its empty-text return.
SkippedByTypeOnly(m) == MessageType(m) # "text"

\* The two early returns of process_message.
Skipped(m) == MessageType(m) # "text" \/ ~Truthy(MessageText(m))

\* The loop leaving after the first message it processes.
NextWorkOnce(its, i) ==
    IF i > 1 THEN Len(its) + 1
    ELSE IF its # <<>> /\ Skipped(its[1].msg) THEN Len(its) + 1
    ELSE i

\* The first message at or after position i that is not skipped
\* (Len + 1 when there is none).
RECURSIVE NextWork(_, _)
NextWork(its, i) ==
    IF i > Len(its) THEN i
    ELSE IF Skipped(its[i].msg) THEN NextWork(its, i + 1)
    ELSE i

(***************************************************************************)
(* The two tables.  A row's id is its index.                               *)
(***************************************************************************)
User(phone_number, name, at) ==
    [phone_number |-> phone_number, name |-> name, is_active |-> TRUE,
     created_at |-> at, updated_at |-> at]

\* A Message built without its external id.
MessageWithoutId(user_id, role, content, meta_message_id, at) ==
    [user_id |-> user_id, role |-> role, content |-> content,
     meta_message_id |-> None, created_at |-> at]

Message(user_id, role, content, meta_message_id, at) ==
    [user_id |-> user_id, role |-> role, content |-> content,
     meta_message_id |-> meta_message_id, created_at |-> at]

\* An insert that overwrites the newest row.
InsertOverLast(rows, row) ==
    IF rows = <<>> THEN <<row>> ELSE [rows EXCEPT ![Len(rows)] = row]

\* An insert that drops a Message whose external id is stored already.
InsertOncePerId(rows, row) ==
    IF /\ "meta_message_id" \in DOMAIN row
       /\ row.meta_message_id # None
       /\ \E i \in 1 .. Len(rows) : rows[i].meta_message_id = row.meta_message_id
    THEN rows
    ELSE Append(rows, row)

\* session.add(row) and commit: the row is added to its table.
Insert(rows, row) == Append(rows, row)

\* The name test without "name and".
NameChangedUnguarded(stored, name) == stored # name

\* get_or_create_user, line 216: is the stored name to be overwritten?
NameChanged(stored, name) == Truthy(name) /\ stored # name

\* A lookup that finds nobody.
UsersWithPhoneNever(us, phone) == {}

UsersWithPhone(us, phone) == { i \in 1 .. Len(us) : us[i].phone_number = phone }

\* phone_number without its unique constraint.
PhoneIsFreeUnchecked(us, phone) == TRUE

\* The unique constraint of User.phone_number: may a row with this phone be inserted?
PhoneIsFree(us, phone) == UsersWithPhone(us, phone) = {}

\* The select without its where clause.
MessagesOfAnyUser(ms, user_id) == 1 .. Len(ms)

\* select(Message).where(Message.user_id == user_id)
MessagesOf(ms, user_id) == { i \in 1 .. Len(ms) : ms[i].user_id = user_id }

\* ORDER BY created_at DESC LIMIT n over the rows S of ms: the k-th row of
\* the result has k - 1 rows of S before it.
LatestFirst(ms, S, n) ==
    LET Before(i) == { y \in S : \/ ms[y].created_at > ms[i].created_at
                                 \/ ms[y].created_at = ms[i].created_at /\ y < i }
        size == IF Cardinality(S) < n THEN Cardinality(S) ELSE n
    IN  [k \in 1 .. size |-> CHOOSE i \in S : Cardinality(Before(i)) = k - 1]

\* The rows left in the order of the query.
ReversedForgotten(s) == s

Reversed(s) == [i \in 1 .. Len(s) |-> s[Len(s) + 1 - i]]

get_conversation_history(ms, user_id, limit) ==
    LET rows == Reversed(LatestFirst(ms, MessagesOf(ms, user_id), limit))
    IN  [i \in 1 .. Len(rows) |-> Entry(ms[rows[i]].role, ms[rows[i]].content)]

(***************************************************************************)
(* A handler (one POST /webhook/whatsapp being served).                    *)
(*   pc        the await it is suspended at, "idle" before the request     *)
(*             and "done" once it has answered                             *)
(*   items     the (message, contacts) pairs of its payload                *)
(*   cur       the position of the message being processed                 *)
(*   loc       the locals of process_message and get_or_create_user        *)
(*   response  the HTTP answer                                             *)
(* and what it did, in order: steps (the pipeline steps it finished),      *)
(* reads (mark_as_read calls), calls (completion calls), sent              *)
(* (send_message calls), resolved (get_or_create_user returns).            *)
(***************************************************************************)
NoResponse == [code |-> 0, status |-> None]
Answer(status) == [code |-> 200, status |-> status]

\* The exception leaving whatsapp_webhook.
HandlerCatchMissing == [code |-> 500, status |-> "Internal Server Error"]

\* whatsapp_webhook's except clause: the answer when anything raised.
HandlerCatch == Answer("error")

\* A failed commit of the inbound Message logged and passed over.
OnCommitErrorContinue == "continue"

\* process_message, lines 161-163: no except clause around the commit of the
\* inbound Message, its exception leaves process_message.
OnCommitError == "raise"

\* mark_as_read without its except clause.
OnReadErrorRaise == "raise"

\* mark_as_read's except clause: any failure is logged and False returned.
OnReadError == "return_false"

\* send_message's exception leaving process_message.
OnSendErrorRaise == "raise"

\* process_message's except clause around send_message.
OnSendError == "continue"

\* The reply sent without being stored.
NextAwaitReplyUnstored(at) ==
    CASE at = "commit_user_message" -> "mark_as_read"
      [] at = "mark_as_read" -> "load_history"
      [] at = "load_history" -> "generate_response"
      [] at = "generate_response" -> "send_message"
      [] at = "commit_assistant_message" -> "send_message"

\* mark_as_read awaited after the history is loaded.
NextAwaitReadLate(at) ==
    CASE at = "commit_user_message" -> "load_history"
      [] at = "load_history" -> "mark_as_read"
      [] at = "mark_as_read" -> "generate_response"
      [] at = "generate_response" -> "commit_assistant_message"
      [] at = "commit_assistant_message" -> "send_message"

\* process_message, lines 161-185: the await that follows each await.
NextAwait(at) ==
    CASE at = "commit_user_message" -> "mark_as_read"
      [] at = "mark_as_read" -> "load_history"
      [] at = "load_history" -> "generate_response"
      [] at = "generate_response" -> "commit_assistant_message"
      [] at = "commit_assistant_message" -> "send_message"

\* The pipeline step that ends when the await returns.
StepOf(at) ==
    CASE at = "commit_user_message" -> "PERSISTED_INBOUND"
      [] at = "mark_as_read" -> "READ_MARKED"
      [] at = "load_history" -> "HISTORY_LOADED"
      [] at = "generate_response" -> "COMPLETION_OBTAINED"
      [] at = "commit_assistant_message" -> "PERSISTED_OUTBOUND"

EmptyLoc ==
    [sender_phone |-> NoPhone, sender_name |-> None, message_text |-> None,
     message_id |-> None, user_id |-> NoUser, created_at |-> 0,
     history |-> <<>>, ai_response |-> None, users_at_call |-> <<>>]

\* The failures the environment may still inject.
MayFail == faults > 0
Outcomes == IF MayFail THEN {"ok", "fail"} ELSE {"ok"}
UpstreamOutcomes == IF MayFail THEN Upstream ELSE {UpstreamOk}
Spend(failed) == faults' = IF failed THEN faults - 1 ELSE faults

Step(h, label) == steps' = [steps EXCEPT ![h] = Append(@, <<cur[h], label>>)]

\* The handler answers and ends.
Finish(h, answer) ==
    /\ pc' = [pc EXCEPT ![h] = "done"]
    /\ response' = [response EXCEPT ![h] = answer]
    /\ loc' = [loc EXCEPT ![h] = EmptyLoc]

\* A handler that processes the entries of any payload.
ObjectAcceptedAlways(object) == TRUE

\* whatsapp_webhook, line 75: the payloads whose entries are processed.
ObjectAccepted(object) == object = WABA

\* From position i of the payload to the next await: the skipped messages
\* return at once; the next text message is unpacked (lines 128-149, where
\* sender_phone[-4:] raises on None) and get_or_create_user awaits its
\* select; with no message left the handler answers "success".
Enter(h, its, i) ==
    LET j == NextWork(its, i)
    IN  /\ cur' = [cur EXCEPT ![h] = j]
        /\ IF j > Len(its) THEN Finish(h, Answer("success"))
           ELSE IF its[j].msg.from = NoPhone THEN Finish(h, HandlerCatch)
           ELSE /\ pc' = [pc EXCEPT ![h] = "select_user"]
                /\ loc' = [loc EXCEPT ![h] =
                     [EmptyLoc EXCEPT !.sender_phone = its[j].msg.from,
                                      !.sender_name = SenderName(its[j].contacts),
                                      !.message_text = MessageText(its[j].msg),
                                      !.message_id = its[j].msg.id,
                                      !.users_at_call = users]]
                /\ UNCHANGED response

\* An exception caught around each message: the loop goes on to the next.
RaiseAndGoOn(h) == Enter(h, items[h], cur[h] + 1)

\* An exception leaves process_message and reaches whatsapp_webhook.
Raise(h) == Finish(h, HandlerCatch) /\ UNCHANGED cur

\* whatsapp_webhook up to its first await inside get_or_create_user.
Receive(h) ==
    /\ pc[h] = "idle"
    /\ \A g \in Handlers : g < h => pc[g] # "idle"
    /\ inbox # <<>>
    /\ inbox' = Tail(inbox)
    /\ LET body == Head(inbox)
           its == IF body.kind = "object" /\ ObjectAccepted(body.object)
                  THEN process_webhook_entries(body.entry) ELSE <<>>
       IN  /\ items' = [items EXCEPT ![h] = its]
           /\ IF body.kind # "object" THEN Raise(h)
              ELSE IF ~ObjectAccepted(body.object)
              THEN Finish(h, Answer("ok")) /\ UNCHANGED cur
              ELSE Enter(h, its, 1)
    /\ UNCHANGED <<users, messages, now, faults, steps, reads, calls, sent, resolved>>
    \* History: a request has been taken while another was being processed.
    /\ overlapped' = (overlapped \/ \E g \in Handlers \ {h} : pc[g] \notin {"idle", "done"})

\* get_or_create_user returns user u; process_message builds the inbound
\* Message (its created_at is taken now) and awaits the commit.
Resolved(h, u, us) ==
    /\ loc' = [loc EXCEPT ![h].user_id = u, ![h].created_at = now]
    /\ now' = now + 1
    /\ pc' = [pc EXCEPT ![h] = "commit_user_message"]
    /\ resolved' = [resolved EXCEPT ![h] = Append(@,
           [cur |-> cur[h], phone_number |-> loc[h].sender_phone,
            name |-> loc[h].sender_name, id |-> u, inbound_at |-> now,
            before |-> loc[h].users_at_call, after |-> us])]
    /\ Step(h, "USER_RESOLVED")
    /\ UNCHANGED <<cur, response>>

\* get_or_create_user, lines 209-223: the select returns.
SelectUser(h) ==
    /\ pc[h] = "select_user"
    /\ \E o \in Outcomes :
        /\ Spend(o = "fail")
        /\ LET found == UsersWithPhone(users, loc[h].sender_phone)
               name == loc[h].sender_name
           IN  IF o = "fail" \/ Cardinality(found) > 1
               THEN Raise(h) /\ UNCHANGED <<now, resolved, steps>>
               ELSE IF found = {}
               THEN /\ loc' = [loc EXCEPT ![h].created_at = now]
                    /\ now' = now + 1
                    /\ pc' = [pc EXCEPT ![h] = "commit_new_user"]
                    /\ UNCHANGED <<cur, response, resolved, steps>>
               ELSE LET u == CHOOSE i \in found : TRUE
                    IN  IF NameChanged(users[u].name, name)
                        THEN /\ loc' = [loc EXCEPT ![h].user_id = u]
                             /\ pc' = [pc EXCEPT ![h] = "commit_name"]
                             /\ UNCHANGED <<now, cur, response, resolved, steps>>
                        ELSE Resolved(h, u, users)
    /\ UNCHANGED <<users, messages, inbox, items, reads, calls, sent, overlapped>>

\* A get_or_create_user that selects the User again when its insert is
\* rejected.
OnIntegrityErrorSelectAgain == "select_again"

\* get_or_create_user, lines 223-226: the commit of the insert is in no try
\* block; the IntegrityError of a rejected insert leaves the function.
OnIntegrityError == "raise"

\* get_or_create_user, lines 223-229: the insert of the new User commits
\* (or the unique constraint of phone_number rejects it) and is refreshed.
CommitNewUser(h) ==
    /\ pc[h] = "commit_new_user"
    /\ \E o \in Outcomes :
        /\ Spend(o = "fail")
        /\ IF \/ o = "fail"
              \/ ~PhoneIsFree(users, loc[h].sender_phone) /\ OnIntegrityError = "raise"
           THEN Raise(h) /\ UNCHANGED <<users, now, resolved, steps>>
           ELSE IF ~PhoneIsFree(users, loc[h].sender_phone)
           THEN /\ users' = users
                /\ Resolved(h, CHOOSE i \in UsersWithPhone(users, loc[h].sender_phone) : TRUE,
                            users)
           ELSE LET us == Insert(users, User(loc[h].sender_phone, loc[h].sender_name,
                                             loc[h].created_at))
                IN  users' = us /\ Resolved(h, Len(us), us)
    /\ UNCHANGED <<messages, inbox, items, reads, calls, sent, overlapped>>

\* get_or_create_user, lines 216-220: the new name commits.
CommitName(h) ==
    /\ pc[h] = "commit_name"
    /\ \E o \in Outcomes :
        /\ Spend(o = "fail")
        /\ IF o = "fail"
           THEN Raise(h) /\ UNCHANGED <<users, now, resolved, steps>>
           ELSE LET us == [users EXCEPT ![loc[h].user_id].name = loc[h].sender_name]
                IN  users' = us /\ Resolved(h, loc[h].user_id, us)
    /\ UNCHANGED <<messages, inbox, items, reads, calls, sent, overlapped>>

\* process_message, lines 161-163: the inbound Message commits.
CommitUserMessage(h) ==
    /\ pc[h] = "commit_user_message"
    /\ \E o \in Outcomes :
        /\ Spend(o = "fail")
        /\ IF o = "fail" /\ OnCommitError = "raise"
           THEN Raise(h) /\ UNCHANGED <<messages, steps>>
           ELSE /\ messages' =
                      IF o = "fail" THEN messages
                      ELSE Insert(messages,
                               Message(loc[h].user_id, USER, loc[h].message_text,
                                       loc[h].message_id, loc[h].created_at))
                /\ pc' = [pc EXCEPT ![h] = NextAwait(pc[h])]
                /\ Step(h, StepOf(pc[h]))
                /\ UNCHANGED <<loc, cur, response>>
    /\ UNCHANGED <<users, now, inbox, items, reads, calls, sent, resolved, overlapped>>

\* process_message, line 166: mark_as_read returns True or False.
MarkAsRead(h) ==
    /\ pc[h] = "mark_as_read"
    /\ \E o \in Outcomes :
        /\ Spend(o = "fail")
        /\ reads' = [reads EXCEPT ![h] = Append(@,
               [cur |-> cur[h], message_id |-> loc[h].message_id, result |-> o = "ok"])]
        /\ IF o = "fail" /\ OnReadError # "return_false"
           THEN Raise(h) /\ UNCHANGED steps
           ELSE /\ pc' = [pc EXCEPT ![h] = NextAwait(pc[h])]
                /\ Step(h, StepOf(pc[h]))
                /\ UNCHANGED <<cur, loc, response>>
    /\ UNCHANGED <<users, messages, now, inbox, items, calls, sent, resolved, overlapped>>

\* process_message, line 169: the history select returns.
LoadHistory(h) ==
    /\ pc[h] = "load_history"
    /\ \E o \in Outcomes :
        /\ Spend(o = "fail")
        /\ IF o = "fail"
           THEN Raise(h) /\ UNCHANGED steps
           ELSE /\ loc' = [loc EXCEPT ![h].history =
                      get_conversation_history(messages, loc[h].user_id, HISTORY_LIMIT)]
                /\ pc' = [pc EXCEPT ![h] = NextAwait(pc[h])]
                /\ Step(h, StepOf(pc[h]))
                /\ UNCHANGED <<cur, response>>
    /\ UNCHANGED <<users, messages, now, inbox, items, reads, calls, sent, resolved, overlapped>>

\* process_message, lines 172-181: generate_response returns and the
\* assistant Message is built.
GenerateResponse(h) ==
    /\ pc[h] = "generate_response"
    /\ \E up \in UpstreamOutcomes :
        /\ Spend(up # UpstreamOk)
        /\ LET reply == generate_response(loc[h].message_text, loc[h].history, up)
           IN  /\ calls' = [calls EXCEPT ![h] = Append(@,
                      [cur |-> cur[h], user_id |-> loc[h].user_id,
                       message |-> loc[h].message_text, history |-> loc[h].history,
                       prompt |-> _build_messages(loc[h].message_text, loc[h].history),
                       upstream |-> up, reply |-> reply, reply_at |-> now])]
               /\ IF reply = RAISED
                  THEN Raise(h) /\ UNCHANGED <<now, steps>>
                  ELSE /\ loc' = [loc EXCEPT ![h].ai_response = reply,
                                             ![h].created_at = now]
                       /\ now' = now + 1
                       /\ pc' = [pc EXCEPT ![h] = NextAwait(pc[h])]
                       /\ Step(h, StepOf(pc[h]))
                       /\ UNCHANGED <<cur, response>>
    /\ UNCHANGED <<users, messages, inbox, items, reads, sent, resolved, overlapped>>

\* process_message, lines 180-181: the assistant Message commits.
CommitAssistantMessage(h) ==
    /\ pc[h] = "commit_assistant_message"
    /\ \E o \in Outcomes :
        /\ Spend(o = "fail")
        /\ IF o = "fail"
           THEN Raise(h) /\ UNCHANGED <<messages, steps>>
           ELSE /\ messages' = Insert(messages,
                      Message(loc[h].user_id, ASSISTANT, loc[h].ai_response,
                              None, loc[h].created_at))
                /\ pc' = [pc EXCEPT ![h] = NextAwait(pc[h])]
                /\ Step(h, StepOf(pc[h]))
                /\ UNCHANGED <<loc, cur, response>>
    /\ UNCHANGED <<users, now, inbox, items, reads, calls, sent, resolved, overlapped>>

\* process_message, lines 184-189: send_message returns or raises, and the
\* loops of process_webhook_entries go on to the next message.
SendMessage(h) ==
    /\ pc[h] = "send_message"
    /\ \E o \in Outcomes :
        /\ Spend(o = "fail")
        /\ sent' = [sent EXCEPT ![h] = Append(@,
               [cur |-> cur[h], to_number |-> loc[h].sender_phone,
                to |-> CleanNumber(loc[h].sender_phone),
                body |-> loc[h].ai_response, delivered |-> o = "ok"])]
        /\ Step(h, IF o = "ok" THEN "DELIVERED" ELSE "DELIVERY_FAILED")
        /\ IF o = "fail" /\ OnSendError # "continue"
           THEN Raise(h)
           ELSE Enter(h, items[h], cur[h] + 1)
    /\ UNCHANGED <<users, messages, now, inbox, items, reads, calls, resolved, overlapped>>

Next ==
    \E h \in Handlers :
        \/ Receive(h)
        \/ SelectUser(h)
        \/ CommitNewUser(h)
        \/ CommitName(h)
        \/ CommitUserMessage(h)
        \/ MarkAsRead(h)
        \/ LoadHistory(h)
        \/ GenerateResponse(h)
        \/ CommitAssistantMessage(h)
        \/ SendMessage(h)

(***************************************************************************)
(* Initial states.                                                         *)
(***************************************************************************)
\* A store that earlier requests of Phone1 left: the User and k Messages,
\* inbound and reply in turn.
StoredUsers(k) == IF k = 0 THEN <<>> ELSE <<User(Phone1, "Ann", 1)>>

StoredMessages(k) ==
    [i \in 1 .. k |->
        IF i % 2 = 1
        THEN Message(1, USER, "old " \o ToString(i), "wamid.old " \o ToString(i), i + 1)
        ELSE Message(1, ASSISTANT, "old " \o ToString(i), None, i + 1)]

HandlersIdle ==
    /\ pc = [h \in Handlers |-> "idle"]
    /\ items = [h \in Handlers |-> <<>>]
    /\ cur = [h \in Handlers |-> 0]
    /\ loc = [h \in Handlers |-> EmptyLoc]
    /\ response = [h \in Handlers |-> NoResponse]
    /\ steps = [h \in Handlers |-> <<>>]
    /\ reads = [h \in Handlers |-> <<>>]
    /\ calls = [h \in Handlers |-> <<>>]
    /\ sent = [h \in Handlers |-> <<>>]
    /\ resolved = [h \in Handlers |-> <<>>]
    /\ overlapped = FALSE

StoreHolds(k) ==
    /\ users = StoredUsers(k)
    /\ messages = StoredMessages(k)
    /\ now = k + 2

\* Overlapping requests on an empty store.
Init ==
    /\ HandlersIdle
    /\ StoreHolds(0)
    /\ inbox \in [1 .. NumHandlers -> ShortBodies]
    /\ faults = MaxRaceFaults

\* One request, any payload, on an empty store or one that knows Phone1.
InitOne ==
    /\ HandlersIdle
    /\ \E k \in {0, 2} : StoreHolds(k)
    /\ inbox \in { <<b>> : b \in Bodies }
    /\ faults = MaxFaults

\* One text message of Phone1 arriving on a store of 0 .. MaxStored Messages.
InitStored ==
    /\ HandlersIdle
    /\ \E k \in 0 .. MaxStored : StoreHolds(k)
    /\ inbox = << Body("object", WABA,
                       << <<Change(<<Msg("wamid.A", Phone1, "text", <<"hi">>)>>, <<"Bob">>)>> >>) >>
    /\ faults = MaxFaults

\* Two requests of Phone1 that may overlap, each with one text message of
\* its own, on an empty store or on one that holds MaxStored - 1 or
\* MaxStored Messages of Phone1.
InitSameUser ==
    /\ HandlersIdle
    /\ \E k \in {0, MaxStored - 1, MaxStored} : StoreHolds(k)
    /\ inbox = << Body("object", WABA,
                       << <<Change(<<Msg("wamid.A", Phone1, "text", <<"hi">>)>>, <<"Bob">>)>> >>),
                  Body("object", WABA,
                       << <<Change(<<Msg("wamid.G", Phone1, "text", <<"more">>)>>, <<"Bob">>)>> >>) >>
    /\ faults = MaxRaceFaults

Spec == Init /\ [][Next]_vars
SpecSameUser == InitSameUser /\ [][Next]_vars
SpecOne == InitOne /\ [][Next]_vars
SpecStored == InitStored /\ [][Next]_vars

\* One request of up to MaxMsgs text messages in one change, with up to
\* MaxRaceFaults calls that fail.
InitLive ==
    /\ HandlersIdle
    /\ \E k \in {0, 2} : StoreHolds(k)
    /\ inbox \in { <<b>> : b \in SimpleBodies(TextMsgs, MaxMsgs, {<<"Bob">>}) }
    /\ faults = MaxRaceFaults

\* The event loop resumes a handler once the call it awaits has returned or
\* failed, and every call does: the completion and delivery clients give
\* their requests a timeout. So a handler that can take a step takes one.
SpecLive == InitLive /\ [][Next]_vars /\ WF_vars(Next)

(***************************************************************************)
(* The verification endpoint (app/routers/whatsapp.py) and the admin API   *)
(* (app/routers/admin.py).  An answer is its HTTP status and its body.     *)
(* The admin handlers are modelled from the point where get_current_admin  *)
(* has accepted the bearer token.  Each of them is one action: it reads    *)
(* the store in one session and writes nothing.                            *)
(***************************************************************************)
MaxUsers == 5         \* Users in the store when an admin request arrives
MaxApiMsgs == 3       \* Messages in the store when an admin request arrives

META_VERIFY_TOKEN == "meta-verify-token"

DAY == 24             \* timedelta(days=1), in hours

\* str(x)
Str(x) == IF x = None THEN "None" ELSE x

PlainTextResponse(content, status_code) == [code |-> status_code, body |-> content]

\* A check of the token alone.
whatsapp_webhook_verify_any_mode(mode, token, challenge) ==
    IF token = META_VERIFY_TOKEN
    THEN PlainTextResponse(Str(challenge), 200)
    ELSE PlainTextResponse("Invalid token", 403)

whatsapp_webhook_verify(mode, token, challenge) ==
    IF mode = "subscribe" /\ token = META_VERIFY_TOKEN
    THEN PlainTextResponse(Str(challenge), 200)
    ELSE PlainTextResponse("Invalid token", 403)

\* An exception is its text, str(e); an HTTPException answers with its
\* status and detail when it leaves the handler, any other exception
\* answers 500.
HTTPException(status_code, detail) ==
    [code |-> status_code, body |-> detail, text |-> ToString(status_code) \o ": " \o detail]
AttributeError == [text |-> "'NoneType' object has no attribute 'strip'"]
InternalServerError == [code |-> 500, body |-> "Internal Server Error"]

HttpAnswer(exc) == [code |-> exc.code, body |-> exc.body]

\* ai_chat, lines 295-300: except Exception, which the HTTPException of
\* line 281 is too.
ai_chat_except(exc) ==
    HttpAnswer(HTTPException(500, "Failed to get AI response: " \o exc.text))

\* request.get("message", ""): a message is a sequence of characters;
\* the key may be missing or hold null.
AbsentMessage == <<"<absent>">>
NullMessage == <<None>>
RequestMessage(request) == IF request.message = AbsentMessage THEN <<>> ELSE request.message

\* str.strip()
Strip(s) == StripRight(StripLeft(s))

\* The ids of the tables are integers (models.py), the id fields of the
\* response schemas are strings (schemas.py); the schemas are validated by
\* pydantic 2 (model_validate), where a str field accepts no int.
IdType == "int"
UserResponseIdType == "str"
MessageResponseIdType == "str"
Validates(value_type, field_type) == value_type = field_type

UserResponse(id, user, total_chats) ==
    [id |-> id, phone_number |-> user.phone_number, name |-> user.name,
     is_active |-> user.is_active, created_at |-> user.created_at,
     total_chats |-> total_chats]

MessageResponse(id, message) ==
    [id |-> id, user_id |-> message.user_id, content |-> message.content,
     role |-> message.role, created_at |-> message.created_at]

\* ORDER BY: every order of the rows S in which at never decreases (rows
\* with equal at come in any order).
RECURSIVE Ordered(_, _)
Ordered(S, at) ==
    IF S = {} THEN {<<>>}
    ELSE UNION { { <<x>> \o t : t \in Ordered(S \ {x}, at) } :
                 x \in { y \in S : \A z \in S : at[y] <= at[z] } }

\* OFFSET skip LIMIT limit
Slice(s, skip, limit) ==
    IF skip >= Len(s) \/ limit = 0 THEN <<>>
    ELSE SubSeq(s, skip + 1, IF skip + limit < Len(s) THEN skip + limit ELSE Len(s))

\* list_users, lines 130-136: the page of user ids.
UsersPage(us, skip, limit) ==
    { Slice(s, skip, limit) :
        s \in Ordered(1 .. Len(us), [i \in 1 .. Len(us) |-> 0 - us[i].created_at]) }

\* list_users, lines 126-156, once the page is read.
list_users(us, ms, page) ==
    IF page # <<>> /\ ~Validates(IdType, UserResponseIdType)
    THEN InternalServerError
    ELSE [code |-> 200,
          body |-> [users |-> [k \in 1 .. Len(page) |->
                                  UserResponse(page[k], us[page[k]],
                                               Cardinality(MessagesOf(ms, page[k])))],
                    total |-> Len(us)]]

\* get_user_conversation, lines 182-188: the rows of the conversation.
ConversationRows(ms, user_id, limit) ==
    { Slice(s, 0, limit) :
        s \in Ordered(MessagesOf(ms, user_id), [i \in 1 .. Len(ms) |-> ms[i].created_at]) }

\* get_user_conversation, lines 173-194, once the rows are read.
get_user_conversation(us, ms, user_id, rows) ==
    IF user_id \notin 1 .. Len(us)
    THEN HttpAnswer(HTTPException(404, "User not found"))
    ELSE IF ~Validates(IdType, UserResponseIdType)
            \/ (rows # <<>> /\ ~Validates(IdType, MessageResponseIdType))
    THEN InternalServerError
    ELSE [code |-> 200,
          body |-> [user |-> UserResponse(user_id, us[user_id], 0),
                    messages |-> [k \in 1 .. Len(rows) |-> MessageResponse(rows[k], ms[rows[k]])],
                    total_messages |-> Len(rows)]]

\* get_stats counting the recent Messages, not their users.
get_stats_not_distinct(us, ms, utcnow) ==
    LET yesterday == utcnow - DAY
    IN  [code |-> 200,
         body |-> [total_users |-> Len(us),
                   total_messages |-> Len(ms),
                   active_users_24h |->
                       Cardinality({ j \in 1 .. Len(ms) : ms[j].created_at >= yesterday }),
                   timestamp |-> utcnow]]

\* get_stats, lines 209-229.
get_stats(us, ms, utcnow) ==
    LET yesterday == utcnow - DAY
    IN  [code |-> 200,
         body |-> [total_users |-> Len(us),
                   total_messages |-> Len(ms),
                   active_users_24h |->
                       Cardinality({ ms[i].user_id : i \in { j \in 1 .. Len(ms) :
                                                               ms[j].created_at >= yesterday } }),
                   timestamp |-> utcnow]]

\* get_latest_chats, lines 244-250: the Messages joined to their User, the
\* latest first.
LatestChatRows(us, ms, limit) ==
    { Slice(s, 0, limit) :
        s \in Ordered({ i \in 1 .. Len(ms) : ms[i].user_id \in 1 .. Len(us) },
                      [i \in 1 .. Len(ms) |-> 0 - ms[i].created_at]) }

\* get_latest_chats, lines 252-262, once the rows are read.
get_latest_chats(us, ms, rows) ==
    [code |-> 200,
     body |-> [k \in 1 .. Len(rows) |->
                 LET message == ms[rows[k]]
                     user == us[message.user_id]
                 IN  [user_name |-> IF Truthy(user.name) THEN user.name
                                    ELSE user.phone_number,
                      phone_number |-> user.phone_number,
                      role |-> message.role,
                      message |-> message.content,
                      timestamp |-> message.created_at]]]

\* ai_chat keeping the exchange as the webhook pipeline does.
ai_chat_stored(ms, message, reply, at) ==
    ms \o <<Message(NoUser, USER, message, None, at),
            Message(NoUser, ASSISTANT, reply, None, at)>>

\* ai_chat, lines 265-293: the handler takes no session; what it leaves in
\* the messages table.
ai_chat_messages(ms, message, reply, at) == ms

\* A handler takes the request at the head of the queue when it is of the
\* given kind, and keeps it as its payload.
Accept(h, kind) ==
    /\ pc[h] = "idle"
    /\ \A g \in Handlers : g < h => pc[g] # "idle"
    /\ inbox # <<>>
    /\ Head(inbox).kind = kind
    /\ inbox' = Tail(inbox)
    /\ items' = [items EXCEPT ![h] = <<Head(inbox)>>]

\* GET /webhook/whatsapp
Verify(h) ==
    /\ Accept(h, "verify")
    /\ LET req == Head(inbox)
       IN  Finish(h, whatsapp_webhook_verify(req.mode, req.token, req.challenge))
    /\ UNCHANGED <<users, messages, now, faults, cur, steps, reads, calls, sent, resolved, overlapped>>

\* POST /admin/ai-chat, lines 278-284: up to the await of generate_response.
AiChat(h) ==
    /\ Accept(h, "ai_chat")
    /\ LET raw == RequestMessage(Head(inbox))
       IN  IF raw = NullMessage
           THEN Finish(h, ai_chat_except(AttributeError))
           ELSE IF ~(Strip(raw) # <<>>)
           THEN Finish(h, ai_chat_except(HTTPException(400, "Message cannot be empty")))
           ELSE /\ pc' = [pc EXCEPT ![h] = "ai_chat_generate"]
                /\ loc' = [loc EXCEPT ![h].message_text = Strip(raw)]
                /\ UNCHANGED response
    /\ UNCHANGED <<users, messages, now, faults, cur, steps, reads, calls, sent, resolved, overlapped>>

\* POST /admin/ai-chat, lines 284-293: generate_response returns.
AiChatGenerate(h) ==
    /\ pc[h] = "ai_chat_generate"
    /\ \E up \in UpstreamOutcomes :
        /\ Spend(up # UpstreamOk)
        /\ LET message == loc[h].message_text
               reply == generate_response(message, <<>>, up)
           IN  /\ calls' = [calls EXCEPT ![h] = Append(@,
                      [cur |-> cur[h], user_id |-> NoUser,
                       message |-> message, history |-> <<>>,
                       prompt |-> _build_messages(message, <<>>),
                       upstream |-> up, reply |-> reply, reply_at |-> now])]
               /\ messages' = ai_chat_messages(messages, message, reply, now)
               /\ IF reply = RAISED
                  THEN Finish(h, ai_chat_except([text |-> RAISED]))
                  ELSE Finish(h, [code |-> 200,
                                  body |-> [status |-> "success", message |-> message,
                                            response |-> reply]])
    /\ UNCHANGED <<users, now, inbox, items, cur, steps, reads, sent, resolved, overlapped>>

\* GET /admin/users
ListUsers(h) ==
    /\ Accept(h, "users")
    /\ \E o \in Outcomes :
        /\ Spend(o = "fail")
        /\ IF o = "fail" THEN Finish(h, InternalServerError)
           ELSE \E page \in UsersPage(users, Head(inbox).skip, Head(inbox).limit) :
                   Finish(h, list_users(users, messages, page))
    /\ UNCHANGED <<users, messages, now, cur, steps, reads, calls, sent, resolved, overlapped>>

\* GET /admin/conversation/{user_id}
GetUserConversation(h) ==
    /\ Accept(h, "conversation")
    /\ \E o \in Outcomes :
        /\ Spend(o = "fail")
        /\ IF o = "fail" THEN Finish(h, InternalServerError)
           ELSE \E rows \in ConversationRows(messages, Head(inbox).user_id, Head(inbox).limit) :
                   Finish(h, get_user_conversation(users, messages, Head(inbox).user_id, rows))
    /\ UNCHANGED <<users, messages, now, cur, steps, reads, calls, sent, resolved, overlapped>>

\* GET /admin/stats
GetStats(h) ==
    /\ Accept(h, "stats")
    /\ \E o \in Outcomes :
        /\ Spend(o = "fail")
        /\ IF o = "fail" THEN Finish(h, InternalServerError)
           ELSE Finish(h, get_stats(users, messages, now))
    /\ UNCHANGED <<users, messages, now, cur, steps, reads, calls, sent, resolved, overlapped>>

\* GET /admin/chats/latest
GetLatestChats(h) ==
    /\ Accept(h, "latest_chats")
    /\ \E o \in Outcomes :
        /\ Spend(o = "fail")
        /\ IF o = "fail" THEN Finish(h, InternalServerError)
           ELSE \E rows \in LatestChatRows(users, messages, Head(inbox).limit) :
                   Finish(h, get_latest_chats(users, messages, rows))
    /\ UNCHANGED <<users, messages, now, cur, steps, reads, calls, sent, resolved, overlapped>>

NextApi ==
    \E h \in Handlers :
        \/ Verify(h)
        \/ AiChat(h)
        \/ AiChatGenerate(h)
        \/ ListUsers(h)
        \/ GetUserConversation(h)
        \/ GetStats(h)
        \/ GetLatestChats(h)

\* The requests.
VerifyRequests ==
    { [kind |-> "verify", mode |-> m, token |-> t, challenge |-> c] :
        m \in {None, "subscribe", "unsubscribe"},
        t \in {None, META_VERIFY_TOKEN, "wrong-token"},
        c \in {None, "1158201444", "Invalid token"} }

AiChatRequests ==
    { [kind |-> "ai_chat", message |-> m] :
        m \in { AbsentMessage, NullMessage, <<>>, <<" ">>, <<" ", " ">>,
                <<"h", "i">>, <<" ", "h", "i", " ">>, <<"a", " ", "b">> } }

ListUsersRequests ==
    { [kind |-> "users", skip |-> s, limit |-> l] :
        s \in 0 .. MaxUsers + 1, l \in {0, 1, 2, 50} }

ConversationRequests ==
    { [kind |-> "conversation", user_id |-> u, limit |-> l] :
        u \in 1 .. 3, l \in {0, 1, 2, 100} }

StatsRequests == { [kind |-> "stats"] }

LatestChatsRequests == { [kind |-> "latest_chats", limit |-> l] : l \in {0, 2, 20} }

\* The stores.  Users are created one after the other, except that the
\* first two may have been committed in the reverse order of their
\* created_at (two requests that raced); Messages are stored oldest first,
\* some at the same time.
PhoneOf(i) == <<"7", ToString(i)>>

ApiUsers(n, swapped) ==
    [i \in 1 .. n |->
        User(PhoneOf(i), IF i % 2 = 1 THEN None ELSE "Ann",
             IF swapped /\ n >= 2 /\ i <= 2 THEN 3 - i ELSE i)]

Ages == {1, DAY - 1, DAY, DAY + 1}

ApiNow == DAY + 2

ApiMessages(rows) ==
    [i \in 1 .. Len(rows) |->
        Message(rows[i][1], IF i % 2 = 1 THEN USER ELSE ASSISTANT,
                "m" \o ToString(i), None, ApiNow - rows[i][2])]

OldestFirst(rows) == \A i \in 1 .. Len(rows) - 1 : rows[i][2] >= rows[i + 1][2]

ApiRequests ==
    VerifyRequests \cup AiChatRequests \cup ListUsersRequests
        \cup ConversationRequests \cup StatsRequests \cup LatestChatsRequests

\* The stores a request is tried on: none for the verification, none or
\* one user for the ai-chat, up to two users with Messages of every age for
\* the conversation, the statistics and the latest chats, up to MaxUsers
\* users for the list of users.
StoreUsers(r) ==
    IF r.kind = "verify" THEN {0}
    ELSE IF r.kind = "ai_chat" THEN 0 .. 1
    ELSE IF r.kind = "users" THEN 0 .. MaxUsers
    ELSE 0 .. 2

StoreSwaps(r) == IF r.kind = "users" THEN BOOLEAN ELSE {FALSE}

StoreAges(r) == IF r.kind = "users" THEN {1} ELSE Ages

Owners(n) == 1 .. (IF n < 2 THEN n ELSE 2)

\* One request to the verification endpoint or to the admin API.
InitApi ==
    /\ HandlersIdle
    /\ \E r \in ApiRequests : \E n \in StoreUsers(r) : \E sw \in StoreSwaps(r) :
          \E rows \in SeqsUpTo(Owners(n) \X StoreAges(r), MaxApiMsgs) :
              /\ OldestFirst(rows)
              /\ users = ApiUsers(n, sw)
              /\ messages = ApiMessages(rows)
              /\ inbox = <<r>>
    /\ now = ApiNow
    /\ faults = MaxFaults

SpecApi == InitApi /\ [][NextApi]_vars

(***************************************************************************)
(* What the claims speak of.                                               *)
(***************************************************************************)
Range(s) == { s[i] : i \in 1 .. Len(s) }

\* A message that is a text message with a non-empty body.
IsText(m) == m.type = "text" /\ m.text # <<>> /\ m.text[1] # "" /\ m.text[1] # None

\* The positions of a handler's payload that hold such a message.
Work(h) == { c \in 1 .. Len(items[h]) : IsText(items[h][c].msg) }

\* The rows the store held before the request arrived, and those added since.
OldRows == Range(StoredMessages(MaxStored))
NewRows(role) ==
    { i \in 1 .. Len(messages) : messages[i] \notin OldRows /\ messages[i].role = role }

RowsAt(t) == { i \in 1 .. Len(messages) : messages[i].created_at = t }

Succeeded(h) == pc[h] = "done" /\ response[h] = Answer("success")

HasStep(h, c, label) == <<c, label>> \in Range(steps[h])

Fallbacks ==
    { "Sorry, AI service authentication failed. Please contact support.",
      "Sorry, too many requests. Please try again in a moment.",
      "Sorry, I'm having trouble connecting. Please try again later.",
      "Sorry, my response took too long. Please try again.",
      "Sorry, I encountered an error. Please try again later." }

(***************************************************************************)
(* C1: whatever the payload and whatever fails while it is processed, a    *)
(* handler that has ended has answered HTTP 200 with status "success",     *)
(* "ok" or "error": nothing else leaves whatsapp_webhook.                  *)
(***************************************************************************)
C1_AlwaysAnswers200 ==
    \A h \in Handlers :
        /\ pc[h] = "done" =>
              /\ response[h].code = 200
              /\ response[h].status \in {"success", "ok", "error"}
        /\ pc[h] # "done" => response[h] = NoResponse

\* Two failures in one request: mark-as-read failed, then a store write.
C1_Witness ==
    \E h \in Handlers :
        /\ pc[h] = "done" /\ response[h].status = "error"
        /\ faults = 0
        /\ reads[h] # <<>> /\ ~reads[h][1].result

(***************************************************************************)
(* C2: when send_message failed for a message, the assistant Message       *)
(* generated for it is in the store, the handler has gone on to the next   *)
(* text message of the payload, and with none left it has answered         *)
(* "success".                                                              *)
(***************************************************************************)
C2_DeliveryFailureContained ==
    \A h \in Handlers : \A k \in 1 .. Len(sent[h]) :
        ~sent[h][k].delivered =>
            LET c == sent[h][k].cur
                call == CHOOSE x \in Range(calls[h]) : x.cur = c
            IN  /\ Message(call.user_id, ASSISTANT, sent[h][k].body, None, call.reply_at)
                       \in Range(messages)
                /\ cur[h] > c
                /\ cur[h] <= Len(items[h]) => IsText(items[h][cur[h]].msg)
                /\ cur[h] > Len(items[h]) => Succeeded(h)

\* The first of two deliveries failed, the second was made, "success".
C2_Witness ==
    \E h \in Handlers :
        /\ Succeeded(h)
        /\ Len(sent[h]) = 2
        /\ ~sent[h][1].delivered /\ sent[h][2].delivered

(***************************************************************************)
(* C3: a failed upstream call makes generate_response return one of the    *)
(* non-empty fallback sentences without raising; the pipeline goes on,     *)
(* the assistant Message it commits holds exactly that sentence and the    *)
(* send it attempts carries exactly that sentence to the sender.           *)
(***************************************************************************)
C3_CompletionFailureContained ==
    \A h \in Handlers : \A k \in 1 .. Len(calls[h]) :
        LET call == calls[h][k]
            c == call.cur
        IN  call.upstream \in UpstreamFailures =>
              /\ call.reply \in Fallbacks
              /\ call.reply # "" /\ call.reply # None
              /\ HasStep(h, c, "COMPLETION_OBTAINED")
              /\ HasStep(h, c, "PERSISTED_OUTBOUND") =>
                    /\ Cardinality(RowsAt(call.reply_at)) = 1
                    /\ \A i \in RowsAt(call.reply_at) :
                          /\ messages[i].role = ASSISTANT
                          /\ messages[i].content = call.reply
              /\ \A s \in Range(sent[h]) :
                    s.cur = c => /\ s.body = call.reply
                                 /\ s.to_number = items[h][c].msg.from
              /\ Succeeded(h) => \E s \in Range(sent[h]) : s.cur = c

\* A timed-out completion whose fallback was stored and sent.
C3_Witness ==
    \E h \in Handlers : \E k \in 1 .. Len(calls[h]) :
        /\ calls[h][k].upstream = "timeout"
        /\ \E s \in Range(sent[h]) :
              s.cur = calls[h][k].cur /\ s.body = FALLBACK_TIMEOUT
        /\ \E i \in 1 .. Len(messages) : messages[i].content = FALLBACK_TIMEOUT

(***************************************************************************)
(* C4: the steps of one message end in the order USER_RESOLVED,            *)
(* PERSISTED_INBOUND, READ_MARKED, HISTORY_LOADED, COMPLETION_OBTAINED,    *)
(* PERSISTED_OUTBOUND, delivery; the inbound Message is in the store when  *)
(* mark-as-read and the completion are called, and an assistant Message    *)
(* is in the store only once its completion call has returned.             *)
(***************************************************************************)
PipelineOrder ==
    << {"USER_RESOLVED"}, {"PERSISTED_INBOUND"}, {"READ_MARKED"}, {"HISTORY_LOADED"},
       {"COMPLETION_OBTAINED"}, {"PERSISTED_OUTBOUND"}, {"DELIVERED", "DELIVERY_FAILED"} >>

StepsOf(h, c) ==
    LET At(s) == s[1] = c
    IN  SelectSeq(steps[h], At)

InboundAt(h, c) ==
    LET r == CHOOSE x \in Range(resolved[h]) : x.cur = c
    IN  r.inbound_at

C5_OneUserPerPhone ==
    \A i, j \in 1 .. Len(users) :
        users[i].phone_number = users[j].phone_number => i = j

\* Two handlers found no User for the same phone and both built one; with
\* no failure injected, one insert committed and the other was rejected.
C5_Witness ==
    \E h, g \in Handlers :
        /\ h # g
        /\ faults = MaxRaceFaults
        /\ items[h] # <<>> /\ items[g] # <<>>
        /\ items[h][1].msg.from = items[g][1].msg.from
        /\ resolved[h] # <<>> /\ resolved[h][1].before = <<>>
        /\ pc[g] = "done" /\ response[g].status = "error" /\ resolved[g] = <<>>
        /\ Len(users) = 1

(***************************************************************************)
(* C6: two calls of get_or_create_user in sequence with the same phone     *)
(* number and the same name return the same id, the second leaves the      *)
(* users table as it found it, and one User has that phone number.         *)
(***************************************************************************)
C6_ResolveIdempotent ==
    \A h \in Handlers :
        /\ \A k \in 2 .. Len(resolved[h]) :
              LET a == resolved[h][k - 1]
                  b == resolved[h][k]
              IN  a.phone_number = b.phone_number /\ a.name = b.name =>
                    /\ b.id = a.id
                    /\ b.before = a.after
                    /\ b.after = b.before
                    /\ Cardinality({ u \in 1 .. Len(b.after) :
                           b.after[u].phone_number = b.phone_number }) = 1
        /\ Succeeded(h) /\ faults = MaxFaults => Len(resolved[h]) = Cardinality(Work(h))

\* Two messages of one phone in one payload, both resolved.
C6_Witness ==
    \E h \in Handlers :
        /\ Len(resolved[h]) = 2
        /\ resolved[h][1].phone_number = resolved[h][2].phone_number
        /\ resolved[h][1].name = resolved[h][2].name
        /\ resolved[h][1].before = <<>>

(***************************************************************************)
(* C7: a message whose type is not "text", or whose text body is empty or  *)
(* missing, leaves no Message in the store and causes no mark-as-read,     *)
(* completion or send; the text messages of the same payload are           *)
(* processed all the same.                                                 *)
(***************************************************************************)
C7_SkippedMessagesLeaveNothing ==
    /\ \A h \in Handlers :
        /\ \A c \in 1 .. Len(items[h]) :
              LET m == items[h][c].msg
              IN  (m.type # "text" \/ m.text = <<>> \/ m.text[1] \in {"", None}) =>
                    /\ \A x \in Range(steps[h]) : x[1] # c
                    /\ \A x \in Range(reads[h]) : x.cur # c /\ x.message_id # m.id
                    /\ \A x \in Range(calls[h]) : x.cur # c
                    /\ \A x \in Range(sent[h]) : x.cur # c
                    /\ \A x \in Range(resolved[h]) : x.cur # c
                    /\ \A i \in 1 .. Len(messages) : messages[i].meta_message_id # m.id
        /\ Succeeded(h) =>
              \A c \in Work(h) : \E x \in Range(sent[h]) : x.cur = c
    /\ \A i \in NewRows(USER) :
          \E h \in Handlers : \E c \in Work(h) :
              items[h][c].msg.id = messages[i].meta_message_id
    /\ \A i \in NewRows(ASSISTANT) :
          \E h \in Handlers : \E x \in Range(calls[h]) :
              x.cur \in Work(h) /\ x.reply_at = messages[i].created_at

\* An empty text message followed by a text message that was processed.
C7_Witness ==
    \E h \in Handlers :
        /\ Succeeded(h)
        /\ Len(items[h]) = 2
        /\ items[h][1].msg.type = "text" /\ items[h][1].msg.text = <<"">>
        /\ Work(h) = {2}
        /\ Len(sent[h]) = 1

(***************************************************************************)
(* C8: when the handler answers "success" for a payload with n non-empty   *)
(* text messages, n user Messages and n assistant Messages were added,     *)
(* one of each per message, the user Message with the inbound body, id     *)
(* and the sender's User, and one send per message was attempted, to the   *)
(* sender's phone with the stored assistant content.                       *)
(***************************************************************************)
C8_TwoMessagesAndOneSendPerEvent ==
    \A h \in Handlers :
        Succeeded(h) =>
            LET n == Cardinality(Work(h))
            IN  /\ Len(resolved[h]) = n /\ Len(calls[h]) = n /\ Len(sent[h]) = n
                /\ { sent[h][k].cur : k \in 1 .. n } = Work(h)
                /\ (\A g \in Handlers \ {h} : pc[g] = "idle") =>
                      /\ Cardinality(NewRows(USER)) = n
                      /\ Cardinality(NewRows(ASSISTANT)) = n
                /\ \A k \in 1 .. n :
                      LET r == resolved[h][k]
                          x == calls[h][k]
                          s == sent[h][k]
                          m == items[h][r.cur].msg
                      IN  /\ x.cur = r.cur /\ s.cur = r.cur
                          /\ users[r.id].phone_number = m.from
                          /\ Cardinality(RowsAt(r.inbound_at)) = 1
                          /\ \A i \in RowsAt(r.inbound_at) :
                                messages[i] =
                                    [user_id |-> r.id, role |-> USER, content |-> m.text[1],
                                     meta_message_id |-> m.id, created_at |-> r.inbound_at]
                          /\ Cardinality(RowsAt(x.reply_at)) = 1
                          /\ \A i \in RowsAt(x.reply_at) :
                                /\ messages[i].user_id = r.id
                                /\ messages[i].role = ASSISTANT
                                /\ messages[i].content = s.body
                          /\ s.to_number = m.from

\* "success" for a payload of two text messages of two senders.
C8_Witness ==
    \E h \in Handlers :
        /\ Succeeded(h)
        /\ Cardinality(Work(h)) = 2
        /\ items[h][1].msg.from # items[h][2].msg.from

(***************************************************************************)
(* C9: the history of a completion call is the last min(k, 10) of the      *)
(* user's k Messages stored when it was loaded, oldest first, each as      *)
(* {role, content}, and the prompt holds them in that order after the      *)
(* system entry; three Messages A, B, C give [A, B, C].                    *)
(***************************************************************************)
RowsBefore(user_id, t) ==
    LET Mine(row) == row.user_id = user_id /\ row.created_at < t
    IN  SelectSeq(messages, Mine)

C9_HistoryIsLastTenOldestFirst ==
    \A h \in Handlers : \A k \in 1 .. Len(calls[h]) :
        LET call == calls[h][k]
            mine == RowsBefore(call.user_id, call.reply_at)
            n == IF Len(mine) < 10 THEN Len(mine) ELSE 10
        IN  /\ Len(call.history) = n
            /\ \A i \in 1 .. n :
                  /\ call.history[i].role = mine[Len(mine) - n + i].role
                  /\ call.history[i].content = mine[Len(mine) - n + i].content
            /\ Len(call.prompt) = n + 2
            /\ \A i \in 1 .. n : call.prompt[i + 1] = call.history[i]
            /\ Len(mine) = 3 =>
                  call.history = << [role |-> mine[1].role, content |-> mine[1].content],
                                    [role |-> mine[2].role, content |-> mine[2].content],
                                    [role |-> mine[3].role, content |-> mine[3].content] >>

\* Twelve Messages stored: the history is the last ten.
C9_Witness ==
    \E h \in Handlers : \E k \in 1 .. Len(calls[h]) :
        /\ Len(RowsBefore(calls[h][k].user_id, calls[h][k].reply_at)) = 12
        /\ Len(calls[h][k].history) = 10
        /\ calls[h][k].history[1].content = "old 3"
        /\ calls[h][k].history[10].content = "hi"

(***************************************************************************)
(* C10: get_or_create_user on a User that exists sets the stored name to   *)
(* a non-empty name that differs from it and leaves it alone for an empty  *)
(* or absent name; the id, the phone_number and the other Users stay.      *)
(***************************************************************************)
C10_NameUpdate ==
    \A h \in Handlers : \A k \in 1 .. Len(resolved[h]) :
        LET r == resolved[h][k]
            known == { u \in 1 .. Len(r.before) :
                         r.before[u].phone_number = r.phone_number }
        IN  \A u \in known :
              /\ r.id = u
              /\ Len(r.after) = Len(r.before)
              /\ r.after[u].phone_number = r.before[u].phone_number
              /\ r.after[u].name =
                    IF r.name # None /\ r.name # "" /\ r.name # r.before[u].name
                    THEN r.name ELSE r.before[u].name
              /\ \A v \in 1 .. Len(r.before) : v # u => r.after[v] = r.before[v]

\* The stored name "Ann" replaced by "Bob".
C10_Witness ==
    \E h \in Handlers : \E k \in 1 .. Len(resolved[h]) :
        LET r == resolved[h][k]
        IN  /\ r.id <= Len(r.before) /\ r.before[r.id].name = "Ann"
            /\ r.name = "Bob"
            /\ r.after[r.id].name = "Bob"

(***************************************************************************)
(* C11: the Messages table is append-only.  Every step of every handler,   *)
(* failed or not, leaves each committed Message in its place and           *)
(* unaltered: the table before the step is a prefix of the table after.    *)
(***************************************************************************)
IsPrefix(s, t) == Len(s) <= Len(t) /\ SubSeq(t, 1, Len(s)) = s

C11_MessagesAppendOnly == [][IsPrefix(messages, messages')]_vars

\* The first message of a payload went through both commits, the second
\* one failed: the request answered "error" with all four rows in place.
C11_Witness ==
    \E h \in Handlers :
        /\ pc[h] = "done" /\ response[h].status = "error"
        /\ HasStep(h, 1, "PERSISTED_OUTBOUND")
        /\ cur[h] = 2
        /\ Len(messages) >= 4
        /\ SubSeq(messages, 1, 2) = StoredMessages(2)

(***************************************************************************)
(* C12: also when handlers overlap, every assistant Message in the store   *)
(* stands after the user Message of the same user that prompted it (the    *)
(* inbound Message of the handler whose completion call produced it), and  *)
(* at every length of the table no user has more assistant Messages than   *)
(* user Messages.                                                          *)
(***************************************************************************)
RowsOfUpTo(u, role, n) ==
    { i \in 1 .. n : messages[i].user_id = u /\ messages[i].role = role }

C12_AssistantAfterItsUserMessage ==
    /\ \A i \in NewRows(ASSISTANT) :
          \E h \in Handlers : \E call \in Range(calls[h]) : \E r \in Range(resolved[h]) :
              /\ call.reply_at = messages[i].created_at
              /\ call.reply = messages[i].content
              /\ r.cur = call.cur
              /\ \E j \in 1 .. (i - 1) :
                    /\ messages[j].role = USER
                    /\ messages[j].user_id = messages[i].user_id
                    /\ messages[j].content = call.message
                    /\ messages[j].created_at = r.inbound_at
    /\ \A n \in 0 .. Len(messages) : \A u \in 1 .. Len(users) :
          Cardinality(RowsOfUpTo(u, ASSISTANT, n)) <= Cardinality(RowsOfUpTo(u, USER, n))

\* Two overlapping requests of one sender: both inbound Messages were
\* committed before either reply.
C12_Witness ==
    /\ Len(messages) = 4
    /\ Len(users) = 1
    /\ messages[1].role = "user" /\ messages[2].role = "user"
    /\ messages[3].role = "assistant" /\ messages[4].role = "assistant"
    /\ \A h \in Handlers : Len(calls[h]) = 1

(***************************************************************************)
(* C14: a request whose payload is a JSON object with an "object" field    *)
(* other than "whatsapp_business_account" (or none) is answered            *)
(* {"status": "ok"} in the step that takes it, whatever its entries hold:  *)
(* no User or Message is written and no completion, mark-as-read or        *)
(* delivery call is made.                                                  *)
(***************************************************************************)
C14_OtherObjectIgnored ==
    [][ ( /\ inbox # <<>> /\ inbox' = Tail(inbox)
          /\ Head(inbox).kind = "object"
          /\ Head(inbox).object # "whatsapp_business_account" )
        => /\ \E h \in Handlers :
                /\ pc[h] = "idle" /\ pc'[h] = "done"
                /\ response'[h] = [code |-> 200, status |-> "ok"]
           /\ users' = users /\ messages' = messages
           /\ calls' = calls /\ reads' = reads /\ sent' = sent
           /\ steps' = steps /\ resolved' = resolved ]_vars

\* A request answered "ok" on a store that holds a User and two Messages.
C14_Witness ==
    \E h \in Handlers :
        /\ pc[h] = "done" /\ response[h] = [code |-> 200, status |-> "ok"]
        /\ users = StoredUsers(2) /\ messages = StoredMessages(2)
        /\ calls[h] = <<>> /\ reads[h] = <<>> /\ sent[h] = <<>>

(***************************************************************************)
(* C15 as stated: 401, 429 and a timeout have their own sentences and all  *)
(* the other failures (another non-200 status, a transport error, a        *)
(* malformed response) share one sentence.                                 *)
(***************************************************************************)
OtherFailures == UpstreamFailures \ {"401", "429", "timeout"}

FallbackOfClass(call) ==
    /\ call.upstream = "401" =>
          call.reply = "Sorry, AI service authentication failed. Please contact support."
    /\ call.upstream = "429" =>
          call.reply = "Sorry, too many requests. Please try again in a moment."
    /\ call.upstream = "timeout" =>
          call.reply = "Sorry, my response took too long. Please try again."

C15_OneGenericSentence ==
    /\ \A h \in Handlers : \A call \in Range(calls[h]) : FallbackOfClass(call)
    /\ \E generic \in Fallbacks :
          \A h \in Handlers : \A call \in Range(calls[h]) :
              call.upstream \in OtherFailures => call.reply = generic

(***************************************************************************)
(* C15 as amended: 401, 429 and a timeout have their own sentences; every  *)
(* other non-200 status gives the "trouble connecting" sentence, and a     *)
(* transport error or a malformed response the "encountered an error"      *)
(* sentence.                                                               *)
(***************************************************************************)
C15_FallbackPerFailure ==
    \A h \in Handlers : \A call \in Range(calls[h]) :
        /\ FallbackOfClass(call)
        /\ call.upstream \in OtherFailures \ {"transport", "malformed"} =>
              call.reply = "Sorry, I'm having trouble connecting. Please try again later."
        /\ call.upstream \in {"transport", "malformed"} =>
              call.reply = "Sorry, I encountered an error. Please try again later."
        /\ call.upstream = "200" => call.reply \notin Fallbacks

\* One request met a rate limit for its first message and a transport
\* error for its second.
C15_Witness ==
    \E h \in Handlers :
        /\ Len(calls[h]) = 2
        /\ calls[h][1].upstream = "429" /\ calls[h][2].upstream = "transport"
        /\ calls[h][1].reply # calls[h][2].reply

(***************************************************************************)
(* C16: mark_as_read returns True or False and never raises, and the       *)
(* pipeline goes on either way: when failed mark-as-read calls are all     *)
(* that went wrong, the handler is at one of the later awaits of the       *)
(* message or has loaded its history, called the completion client,        *)
(* stored the assistant Message and sent it.                               *)
(***************************************************************************)
FailedReads ==
    UNION { { <<h, k>> : k \in { j \in 1 .. Len(reads[h]) : ~reads[h][j].result } } :
            h \in Handlers }

C16_MarkAsReadNeverBlocks ==
    \A h \in Handlers : \A k \in 1 .. Len(reads[h]) :
        LET c == reads[h][k].cur
        IN  /\ reads[h][k].result \in BOOLEAN
            /\ HasStep(h, c, "READ_MARKED")
            /\ faults = MaxFaults - Cardinality(FailedReads) =>
                  /\ cur[h] = c =>
                        pc[h] \in {"load_history", "generate_response",
                                   "commit_assistant_message", "send_message"}
                  /\ cur[h] > c =>
                        /\ HasStep(h, c, "HISTORY_LOADED")
                        /\ HasStep(h, c, "COMPLETION_OBTAINED")
                        /\ HasStep(h, c, "PERSISTED_OUTBOUND")
                        /\ HasStep(h, c, "DELIVERED")
                        /\ \E call \in Range(calls[h]) : call.cur = c
                        /\ \E s \in Range(sent[h]) : s.cur = c /\ s.delivered

\* Both messages of a payload could not be marked as read and both were
\* answered: the request ended with "success".
C16_Witness ==
    \E h \in Handlers :
        /\ Succeeded(h)
        /\ Len(reads[h]) = 2
        /\ ~reads[h][1].result /\ ~reads[h][2].result
        /\ Len(sent[h]) = 2 /\ sent[h][2].delivered
        /\ Cardinality(NewRows("assistant")) = 2

(***************************************************************************)
(* Requests to the verification endpoint and to the admin API.             *)
(***************************************************************************)
\* The handlers that answered a request of the given kind.
Answered(kind) ==
    { h \in Handlers : pc[h] = "done" /\ items[h] # <<>> /\ items[h][1].kind = kind }

\* No read of the store failed.
StoreAnswered == faults = MaxFaults

(***************************************************************************)
(* C13: the verification endpoint answers 200 exactly when mode is         *)
(* "subscribe" and the token is the configured verify token, and the body  *)
(* is then the challenge that was given; in every other case (mode or      *)
(* token wrong or missing) it answers 403 with the body "Invalid token".   *)
(***************************************************************************)
C13_VerifyEchoesChallenge ==
    \A h \in Answered("verify") :
        LET req == items[h][1]
            accepted == req.mode = "subscribe" /\ req.token = "meta-verify-token"
        IN  /\ response[h].code = 200 <=> accepted
            /\ accepted /\ req.challenge # None => response[h].body = req.challenge
            /\ ~accepted => response[h].code = 403 /\ response[h].body = "Invalid token"

\* A subscription verified: the challenge came back.
C13_Witness ==
    \E h \in Answered("verify") :
        /\ items[h][1].mode = "subscribe"
        /\ items[h][1].challenge = "1158201444"
        /\ response[h] = [code |-> 200, body |-> "1158201444"]

(***************************************************************************)
(* C17 as stated: ai-chat answers 400 and calls no completion when the     *)
(* message is absent or empty after trimming, and otherwise calls the      *)
(* completion client once with the trimmed message and an empty history.   *)
(***************************************************************************)
C17_EmptyMessageIsBadRequest ==
    \A h \in Answered("ai_chat") :
        LET given == items[h][1].message
            text == IF given = AbsentMessage THEN <<>> ELSE given
            trimmed == StripRight(StripLeft(text))
        IN  given # NullMessage =>
              /\ trimmed = <<>> => response[h].code = 400 /\ calls[h] = <<>>
              /\ trimmed # <<>> =>
                    /\ Len(calls[h]) = 1
                    /\ calls[h][1].message = trimmed
                    /\ calls[h][1].history = <<>>

(***************************************************************************)
(* C18 as stated: get_user_conversation answers 404 when no User has the   *)
(* id; otherwise it answers with that User, at most limit Messages, all    *)
(* of that user, in ascending created_at order, and total_messages is the  *)
(* number of Messages returned.                                            *)
(***************************************************************************)
C18_ConversationOfUser ==
    \A h \in Answered("conversation") :
        LET req == items[h][1]
            body == response[h].body
        IN  StoreAnswered =>
              IF req.user_id \notin 1 .. Len(users)
              THEN response[h].code = 404
              ELSE /\ response[h].code = 200
                   /\ body.user.phone_number = users[req.user_id].phone_number
                   /\ Len(body.messages) <= req.limit
                   /\ \A k \in 1 .. Len(body.messages) :
                         body.messages[k].user_id = req.user_id
                   /\ \A k \in 1 .. Len(body.messages) - 1 :
                         body.messages[k].created_at <= body.messages[k + 1].created_at
                   /\ body.total_messages = Len(body.messages)

(***************************************************************************)
(* C19: get_stats answers with the number of Users, the number of          *)
(* Messages and the number of users that own a Message created within     *)
(* the 24 hours before the query: a user with a Message 23 hours old is    *)
(* counted, one whose Messages are all 25 hours old is not, and a user     *)
(* with several recent Messages is counted once.                           *)
(***************************************************************************)
AgeOf(i) == now - messages[i].created_at

RecentUsers ==
    { u \in 1 .. Len(users) :
        \E i \in 1 .. Len(messages) : messages[i].user_id = u /\ AgeOf(i) <= 24 }

C19_Stats ==
    \A h \in Answered("stats") :
        StoreAnswered =>
          /\ response[h].code = 200
          /\ response[h].body.total_users = Len(users)
          /\ response[h].body.total_messages = Len(messages)
          /\ response[h].body.active_users_24h = Cardinality(RecentUsers)
          /\ \A i \in 1 .. Len(messages) :
                AgeOf(i) = 23 => response[h].body.active_users_24h >= 1

\* Two recent Messages of one user, one of them 23 hours old, and a
\* Message of another user that is 25 hours old: one active user.
C19_Witness ==
    \E h \in Answered("stats") :
        /\ Len(users) = 2 /\ Len(messages) = 3
        /\ messages[1].user_id = 2 /\ AgeOf(1) = 25
        /\ messages[2].user_id = 1 /\ AgeOf(2) = 23
        /\ messages[3].user_id = 1 /\ AgeOf(3) = 1
        /\ response[h].code = 200
        /\ response[h].body.active_users_24h = 1
        /\ response[h].body.total_users = 2
        /\ response[h].body.total_messages = 3

(***************************************************************************)
(* C20 as stated: list_users(skip, limit) over N users answers with        *)
(* min(limit, max(0, N - skip)) users, those at positions skip + 1 ..      *)
(* skip + limit in descending created_at order, each with the count of     *)
(* its Messages, and total = N.                                            *)
(***************************************************************************)
C20_UsersPage ==
    \A h \in Answered("users") :
        LET req == items[h][1]
            N == Len(users)
            left == IF N - req.skip > 0 THEN N - req.skip ELSE 0
            size == IF req.limit < left THEN req.limit ELSE left
            page == response[h].body.users
            \* the number of Users created after user u
            newer(u) == Cardinality({ v \in 1 .. N : users[v].created_at > users[u].created_at })
        IN  StoreAnswered =>
              /\ response[h].code = 200
              /\ response[h].body.total = N
              /\ Len(page) = size
              /\ \A k \in 1 .. Len(page) :
                    /\ page[k].id \in 1 .. N
                    /\ newer(page[k].id) = req.skip + k - 1
                    /\ page[k].phone_number = users[page[k].id].phone_number
                    /\ page[k].total_chats =
                          Cardinality({ i \in 1 .. Len(messages) :
                                          messages[i].user_id = page[k].id })

(***************************************************************************)
(* C21: a handler that took a request eventually answers; when it answers, *)
(* every non-empty text message of the payload has reached DELIVERED or    *)
(* DELIVERY_FAILED, unless a store operation failed or the payload could   *)
(* not be unpacked. No external call (mark-as-read, completion, delivery)  *)
(* ends the pipeline early: a completion that timed out gives a fallback   *)
(* reply that is stored and sent.                                          *)
(***************************************************************************)
Terminal(h, c) == HasStep(h, c, "DELIVERED") \/ HasStep(h, c, "DELIVERY_FAILED")

\* The handler ended in its except clause right after an external call of
\* the message it was processing: the call is logged and its step is not.
EndedByExternalCall(h) ==
    /\ pc[h] = "done" /\ response[h] = Answer("error")
    /\ \/ \E r \in Range(reads[h]) :
             r.cur = cur[h] /\ ~HasStep(h, cur[h], "READ_MARKED")
       \/ \E x \in Range(calls[h]) :
             x.cur = cur[h] /\ ~HasStep(h, cur[h], "COMPLETION_OBTAINED")
       \/ \E x \in Range(sent[h]) : x.cur = cur[h]

\* The messages a handler that has answered was to finish: all of them, or
\* those before the one whose store operation or unpacking failed.
Due(h) == { c \in Work(h) : response[h] # Answer("error") \/ c < cur[h] }

Settled(h) ==
    /\ pc[h] = "done"
    /\ ~EndedByExternalCall(h)
    /\ \A c \in Due(h) : Terminal(h, c)
    /\ \A x \in Range(calls[h]) :
          x.upstream = "timeout" =>
              /\ x.reply = FALLBACK_TIMEOUT
              /\ x.cur \in Due(h) =>
                    \E i \in RowsAt(x.reply_at) : messages[i].content = x.reply

C21_EveryMessageReachesATerminalStep ==
    \A h \in Handlers : (pc[h] # "idle") ~> Settled(h)

\* A completion that timed out, its fallback stored and delivered, and a
\* second message of the payload processed after it.
C21_Witness ==
    \E h \in Handlers :
        /\ Succeeded(h) /\ Cardinality(Work(h)) = 2
        /\ \E x \in Range(calls[h]) : x.upstream = "timeout" /\ x.cur = 1
        /\ \A c \in Work(h) : Terminal(h, c)

(***************************************************************************)
(* C22: the messages of a payload are processed one at a time in payload   *)
(* order, entry by entry, change by change, message by message: a handler  *)
(* takes up a message only when the one before it has reached its last     *)
(* step, and the Messages it stores for one message all precede those it   *)
(* stores for the next.                                                    *)
(***************************************************************************)
\* The places of the messages of a payload and their order.
Places(entry) ==
    UNION { UNION { { <<e, c, m>> : m \in 1 .. Len(entry[e][c].messages) } :
                    c \in 1 .. Len(entry[e]) } : e \in 1 .. Len(entry) }

Earlier(p, q) ==
    \/ p[1] < q[1]
    \/ p[1] = q[1] /\ p[2] < q[2]
    \/ p[1] = q[1] /\ p[2] = q[2] /\ p[3] < q[3]

InPayloadOrder(entry, its) ==
    /\ Len(its) = Cardinality(Places(entry))
    /\ \A p \in Places(entry) :
          LET k == Cardinality({ q \in Places(entry) : Earlier(q, p) }) + 1
          IN  /\ its[k].msg = entry[p[1]][p[2]].messages[p[3]]
              /\ its[k].contacts = entry[p[1]][p[2]].contacts

\* The rows a handler stored for message c of its payload.
RowsFor(h, c) ==
    { i \in 1 .. Len(messages) :
        \/ \E r \in Range(resolved[h]) :
              r.cur = c /\ messages[i].created_at = r.inbound_at
        \/ \E x \in Range(calls[h]) :
              x.cur = c /\ messages[i].created_at = x.reply_at }

OneAtATime ==
    \A h \in Handlers :
        /\ \A k \in 1 .. Len(steps[h]) :
              /\ steps[h][k][1] <= cur[h]
              /\ k < Len(steps[h]) =>
                    /\ steps[h][k][1] <= steps[h][k + 1][1]
                    /\ steps[h][k][1] < steps[h][k + 1][1] =>
                          steps[h][k][2] \in {"DELIVERED", "DELIVERY_FAILED"}
        /\ \A c, d \in 1 .. Len(items[h]) :
              c < d => \A i \in RowsFor(h, c) : \A j \in RowsFor(h, d) : i < j

C22_OneMessageAtATimeInPayloadOrder ==
    /\ []OneAtATime
    /\ [][\A h \in Handlers :
            (pc[h] = "idle" /\ pc'[h] # "idle" /\ Head(inbox).kind = "object"
                /\ Head(inbox).object = WABA)
            => InPayloadOrder(Head(inbox).entry, items'[h])]_vars

\* Two messages in two changes with different contacts, both processed to
\* the end, four Messages stored.
C22_Witness ==
    \E h \in Handlers :
        /\ Succeeded(h) /\ Len(items[h]) = 2
        /\ items[h][1].contacts # items[h][2].contacts
        /\ items[h][1].msg # items[h][2].msg
        /\ \A c \in 1 .. 2 : Terminal(h, c) /\ Cardinality(RowsFor(h, c)) = 2

(***************************************************************************)
(* C23: the admin queries (list of users, conversation, statistics, latest *)
(* chats, ai-chat) and the verification leave the users and the messages   *)
(* of the store as they were, whether they answer or fail; the ai-chat     *)
(* exchange is not stored.                                                 *)
(***************************************************************************)
C23_AdminQueriesAreReadOnly == [][users' = users /\ messages' = messages]_vars

\* An ai-chat answered with a completion, on a store that holds Messages.
C23_Witness ==
    \E h \in Answered("ai_chat") :
        /\ response[h].code = 200
        /\ calls[h] # <<>> /\ calls[h][1].reply = response[h].body.response
        /\ messages # <<>>

(***************************************************************************)
(* C24: whenever get_or_create_user changes the name of a stored User, the *)
(* User's updated_at is refreshed (it is later than it was before the      *)
(* call) and its created_at keeps its value.                               *)
(***************************************************************************)
C24_NameChangeRefreshesUpdatedAt ==
    \A h \in Handlers : \A r \in Range(resolved[h]) :
        (r.id \in 1 .. Len(r.before) /\ r.after[r.id].name # r.before[r.id].name) =>
            /\ r.after[r.id].updated_at > r.before[r.id].updated_at
            /\ r.after[r.id].created_at = r.before[r.id].created_at

(***************************************************************************)
(* C25: nothing is deduplicated by the external message id. Every handler  *)
(* that was given an event stores its own user Message with the event's    *)
(* id and its own assistant Message, and makes its own completion call and *)
(* send attempt: the same event delivered twice leaves two user Messages   *)
(* with the same meta_message_id, two assistant Messages, two completion   *)
(* calls and two send attempts.                                            *)
(***************************************************************************)
\* The handlers whose log holds the step for a message with the given id.
HandlersAt(id, label) ==
    { h \in Handlers :
        \E c \in 1 .. Len(items[h]) : items[h][c].msg.id = id /\ HasStep(h, c, label) }

EventIds == { m.id : m \in MsgPool }

C25_NoDeduplication ==
    /\ \A id \in EventIds :
          Cardinality({ i \in NewRows(USER) : messages[i].meta_message_id = id })
              = Cardinality(HandlersAt(id, "PERSISTED_INBOUND"))
    /\ Cardinality(NewRows(ASSISTANT))
          = Cardinality(UNION { HandlersAt(id, "PERSISTED_OUTBOUND") : id \in EventIds })
    /\ \A h \in Handlers :
          Succeeded(h) =>
              \A c \in Work(h) :
                  /\ HasStep(h, c, "PERSISTED_INBOUND") /\ HasStep(h, c, "PERSISTED_OUTBOUND")
                  /\ Cardinality({ k \in 1 .. Len(calls[h]) : calls[h][k].cur = c }) = 1
                  /\ Cardinality({ k \in 1 .. Len(sent[h]) : sent[h][k].cur = c }) = 1

\* The same event given to two handlers, both answered "success".
C25_Witness ==
    \E h, g \in Handlers :
        /\ h # g /\ Succeeded(h) /\ Succeeded(g)
        /\ items[h] = items[g] /\ Work(h) = {1}
        /\ Cardinality({ i \in NewRows(USER) :
                           messages[i].meta_message_id = items[h][1].msg.id }) = 2
        /\ Cardinality(NewRows(ASSISTANT)) = 2
        /\ Len(calls[h]) = 1 /\ Len(calls[g]) = 1
        /\ Len(sent[h]) = 1 /\ Len(sent[g]) = 1

(***************************************************************************)
(* C26: every assistant Message has no meta_message_id; every user Message *)
(* a handler stored carries the external id of the webhook message it was  *)
(* stored for, the id that handler passes to mark_as_read.                 *)
(***************************************************************************)
C26_MetaMessageIds ==
    /\ \A i \in 1 .. Len(messages) :
          /\ messages[i].role = ASSISTANT => messages[i].meta_message_id = None
          /\ messages[i].role = USER => messages[i].meta_message_id # None
    /\ \A h \in Handlers :
          /\ \A r \in Range(resolved[h]) : \A i \in RowsAt(r.inbound_at) :
                /\ messages[i].role = USER
                /\ messages[i].meta_message_id = items[h][r.cur].msg.id
          /\ \A r \in Range(reads[h]) :
                /\ r.message_id = items[h][r.cur].msg.id
                /\ \E i \in RowsAt(InboundAt(h, r.cur)) :
                      messages[i].meta_message_id = r.message_id

\* Two messages with different ids, each stored and marked as read under
\* its own id, and their two replies stored.
C26_Witness ==
    \E h \in Handlers :
        /\ Len(reads[h]) = 2 /\ reads[h][1].message_id # reads[h][2].message_id
        /\ Cardinality(NewRows(ASSISTANT)) = 2
        /\ Cardinality({ messages[i].meta_message_id : i \in NewRows(USER) }) = 2

(***************************************************************************)
(* C27: the history is loaded once the inbound Message is committed.       *)
(* Unless an overlapping handler stored a later Message of the same user   *)
(* in between, the last history entry given to generate_response is the    *)
(* new inbound message itself: the prompt holds the new text twice, as the *)
(* last history entry and as the current message, and at most 9 earlier    *)
(* Messages of the user.                                                   *)
(***************************************************************************)
\* The last entry of the history is the message the completion is asked for.
EndsWithOwnMessage(x) ==
    /\ x.history # <<>>
    /\ x.history[Len(x.history)] = Entry(USER, x.message)
    /\ Len(x.history) <= 10
    /\ x.prompt = <<Entry("system", SYSTEM_PROMPT)>> \o x.history \o <<Entry(USER, x.message)>>

\* A Message of the call's user built by another handler between the
\* inbound Message of the call and the return of the completion.
StoredInBetween(h, x) ==
    \E i \in 1 .. Len(messages) :
        /\ messages[i].user_id = x.user_id
        /\ messages[i].created_at > InboundAt(h, x.cur)
        /\ messages[i].created_at < x.reply_at

\* The claim as it was made: of every completion call of the pipeline.
C27_LastHistoryEntryIsTheNewMessage ==
    \A h \in Handlers : \A x \in Range(calls[h]) : EndsWithOwnMessage(x)

C27_LastHistoryEntryUnlessOverlap ==
    \A h \in Handlers : \A x \in Range(calls[h]) :
        ~StoredInBetween(h, x) => EndsWithOwnMessage(x)

\* Two handlers of one user, the store full: one handler's call was given
\* ten entries, the last one its own message, while the other handler had
\* answered already.
C27_Witness ==
    \E h, g \in Handlers :
        /\ h # g /\ Succeeded(g) /\ calls[h] # <<>>
        /\ ~StoredInBetween(h, calls[h][1])
        /\ Len(calls[h][1].history) = 10
        /\ EndsWithOwnMessage(calls[h][1])

(***************************************************************************)
(* C28: a handler whose insert of a new User is rejected, because an       *)
(* overlapping handler has stored a User with the same phone number since  *)
(* its select, ends with {"status": "error"} and HTTP 200: that step       *)
(* changes no table, the handler has stored no Message and made no         *)
(* mark-as-read, completion or delivery call for the message, and a        *)
(* handler that has answered takes no further step (no retry).             *)
(***************************************************************************)
NothingFor(h, c) ==
    /\ \A s \in Range(steps[h]) : s[1] # c
    /\ \A r \in Range(reads[h]) : r.cur # c
    /\ \A x \in Range(calls[h]) : x.cur # c
    /\ \A x \in Range(sent[h]) : x.cur # c
    /\ \A r \in Range(resolved[h]) : r.cur # c

C28_InsertRaceLoserIsDropped ==
    [][\A h \in Handlers :
          /\ (/\ pc[h] = "commit_new_user"
              /\ UsersWithPhone(users, loc[h].sender_phone) # {}
              /\ pc'[h] # pc[h])
             => /\ pc'[h] = "done"
                /\ response'[h] = [code |-> 200, status |-> "error"]
                /\ users' = users /\ messages' = messages
                /\ cur'[h] = cur[h]
                /\ NothingFor(h, cur[h]) /\ NothingFor(h, cur[h])'
          /\ pc[h] = "done"
             => /\ pc'[h] = "done" /\ response'[h] = response[h]
                /\ steps'[h] = steps[h] /\ reads'[h] = reads[h]
                /\ calls'[h] = calls[h] /\ sent'[h] = sent[h]
                /\ resolved'[h] = resolved[h]]_vars

\* Two handlers with a message of the same phone number, no call failed:
\* one answered "error" with nothing done, the other stored the User and
\* its inbound Message, the only rows of the store.
C28_Witness ==
    \E h, g \in Handlers :
        /\ h # g /\ faults = MaxRaceFaults
        /\ pc[h] = "done" /\ response[h] = [code |-> 200, status |-> "error"]
        /\ items[h] # <<>> /\ NothingFor(h, 1)
        /\ \E r \in Range(resolved[g]) : r.phone_number = items[h][1].msg.from
        /\ HasStep(g, 1, "PERSISTED_INBOUND")
        /\ Len(users) = 1 /\ Len(messages) = 1

(***************************************************************************)
(* C29: when the processing of the k-th message of a payload raises, the   *)
(* handler answers {"status": "error"}; none of the later messages is      *)
(* processed (no Message stored, no external call made for them), and what *)
(* was committed for messages 1 .. k-1, and for message k before the       *)
(* failure, stays in the store.                                            *)
(***************************************************************************)
\* The row a logged step has committed is in the store.
Kept(h, c) ==
    /\ HasStep(h, c, "PERSISTED_INBOUND") =>
          \E i \in RowsAt(InboundAt(h, c)) : messages[i].role = USER
    /\ HasStep(h, c, "PERSISTED_OUTBOUND") =>
          \E x \in Range(calls[h]) : x.cur = c /\
              \E i \in RowsAt(x.reply_at) : messages[i].role = ASSISTANT

C29_FailureEndsThePayload ==
    \A h \in Handlers :
        (pc[h] = "done" /\ response[h] = Answer("error") /\ cur[h] >= 1) =>
            /\ \A c \in 1 .. Len(items[h]) : c > cur[h] => NothingFor(h, c)
            /\ \A c \in Work(h) :
                  c < cur[h] => /\ HasStep(h, c, "PERSISTED_INBOUND")
                                /\ HasStep(h, c, "PERSISTED_OUTBOUND")
                                /\ Terminal(h, c)
            /\ \A c \in 1 .. cur[h] : Kept(h, c)
            /\ Cardinality(NewRows(USER) \cup NewRows(ASSISTANT))
                  = Cardinality(UNION { RowsFor(h, c) : c \in 1 .. cur[h] })

\* The first message processed to the end, the second failed after its
\* inbound Message was committed: three Messages are in the store.
C29_Witness ==
    \E h \in Handlers :
        /\ pc[h] = "done" /\ response[h] = Answer("error") /\ cur[h] = 2
        /\ Terminal(h, 1)
        /\ HasStep(h, 2, "PERSISTED_INBOUND") /\ ~HasStep(h, 2, "PERSISTED_OUTBOUND")
        /\ Cardinality(NewRows(USER)) = 2 /\ Cardinality(NewRows(ASSISTANT)) = 1

(***************************************************************************)
(* C30: the sender name used for a message is the profile name of the      *)
(* first contact of its change, whoever sent the message. When a change    *)
(* holds text messages of two phone numbers and its first contact has a    *)
(* non-empty name, the Users of both phone numbers end with that name.     *)
(***************************************************************************)
FirstContactName(cs) == IF Len(cs) = 0 THEN None ELSE Head(cs)

C30_FirstContactNamesEverySender ==
    \A h \in Handlers :
        /\ \A r \in Range(resolved[h]) :
              LET name == FirstContactName(items[h][r.cur].contacts)
              IN  /\ r.name = name
                  /\ Truthy(name) => r.after[r.id].name = name
        /\ Succeeded(h) =>
              \A c \in Work(h) :
                  LET name == FirstContactName(items[h][c].contacts)
                      from == items[h][c].msg.from
                  IN  (/\ Truthy(name)
                       /\ \A d \in Work(h) : d > c => items[h][d].msg.from # from)
                      => \E u \in UsersWithPhone(users, from) : users[u].name = name

\* One change with a message of each of two phone numbers and the contacts
\* Ann and Bob: both Users are named Ann.
C30_Witness ==
    \E h \in Handlers :
        /\ Succeeded(h) /\ Work(h) = {1, 2}
        /\ items[h][1].msg.from # items[h][2].msg.from
        /\ items[h][1].contacts = <<"Ann", "Bob">>
        /\ items[h][2].contacts = <<"Ann", "Bob">>
        /\ Len(users) = 2 /\ users[1].name = "Ann" /\ users[2].name = "Ann"

(***************************************************************************)
(* C31: for every completion call a handler makes for user U, U is the     *)
(* User of the sender of the message; every history entry is a Message     *)
(* stored under U before the call returned, and the history holds no more  *)
(* entries than U has such Messages; the reply is stored under U and sent  *)
(* to U's phone number. Whatever the interleaving, no Message of another   *)
(* user enters the prompt and no reply goes to another user.               *)
(***************************************************************************)
\* The Messages of user u built before time t.
EarlierRowsOf(u, t) ==
    { i \in 1 .. Len(messages) : messages[i].user_id = u /\ messages[i].created_at < t }

C31_NoCrossUserLeak ==
    \A h \in Handlers : \A x \in Range(calls[h]) :
        LET from == items[h][x.cur].msg.from
        IN  /\ x.user_id \in 1 .. Len(users)
            /\ users[x.user_id].phone_number = from
            /\ \A k \in 1 .. Len(x.history) :
                  \E i \in EarlierRowsOf(x.user_id, x.reply_at) :
                      x.history[k] = Entry(messages[i].role, messages[i].content)
            /\ Len(x.history) <= Cardinality(EarlierRowsOf(x.user_id, x.reply_at))
            /\ \A k \in 2 .. Len(x.prompt) - 1 : x.prompt[k] \in Range(x.history)
            /\ \A i \in RowsAt(x.reply_at) :
                  /\ messages[i].user_id = x.user_id
                  /\ messages[i].role = ASSISTANT /\ messages[i].content = x.reply
            /\ HasStep(h, x.cur, "PERSISTED_OUTBOUND") => RowsAt(x.reply_at) # {}
            /\ \A y \in Range(sent[h]) :
                  y.cur = x.cur =>
                      /\ y.to_number = users[x.user_id].phone_number
                      /\ y.to = CleanNumber(from)
                      /\ y.body = x.reply

\* Two handlers for two users whose pipelines overlapped: each built its
\* inbound Message before the other's completion returned; each history
\* holds the handler's own message alone and each reply went to its own
\* user.
C31_Witness ==
    \E h, g \in Handlers :
        /\ Succeeded(h) /\ Succeeded(g)
        /\ calls[h] # <<>> /\ calls[g] # <<>>
        /\ calls[h][1].user_id # calls[g][1].user_id
        /\ InboundAt(g, 1) < calls[h][1].reply_at
        /\ InboundAt(h, 1) < calls[g][1].reply_at
        /\ calls[h][1].history = <<Entry(USER, calls[h][1].message)>>
        /\ sent[h][1].to_number # sent[g][1].to_number

(***************************************************************************)
(* C32: as long as no request was taken while another was being processed  *)
(* and no store operation has failed, on a store whose Messages were all   *)
(* answered, the Messages of a user in insertion order alternate user,     *)
(* assistant, user, assistant. With two overlapping handlers of one user   *)
(* the alternation is not kept: a state with two adjacent user Messages is *)
(* reachable, where the history loaded for one event holds the inbound     *)
(* Message of the other event, which has no reply yet.                     *)
(***************************************************************************)
UserRows(u) ==
    LET Mine(row) == row.user_id = u
    IN  SelectSeq(messages, Mine)

Alternates(u) ==
    \A k \in 1 .. Len(UserRows(u)) :
        UserRows(u)[k].role = IF k % 2 = 1 THEN USER ELSE ASSISTANT

\* The Messages the requests found in the store end with a reply.
StoredAnswered ==
    Cardinality({ i \in 1 .. Len(messages) : messages[i] \in OldRows }) % 2 = 0

\* The last step of the message a handler ended on with an error.
FailedAfter(h) ==
    IF pc[h] = "done" /\ response[h] = Answer("error")
    THEN IF StepsOf(h, cur[h]) = <<>> THEN "NONE"
         ELSE StepsOf(h, cur[h])[Len(StepsOf(h, cur[h]))][2]
    ELSE "-"

\* A handler ended on a failed store operation; on a failed write: the
\* insert or update of get_or_create_user (or its select), the commit of
\* the inbound Message, the commit of the assistant Message.
OperationFailed == \E h \in Handlers : FailedAfter(h) # "-"
WriteFailed ==
    \E h \in Handlers : FailedAfter(h) \in {"NONE", "USER_RESOLVED", "COMPLETION_OBTAINED"}

\* The claim as it was made: no store write fails.
C32_AlternatesUnlessWriteFails ==
    (~overlapped /\ StoredAnswered /\ ~WriteFailed)
        => \A u \in 1 .. Len(users) : Alternates(u)

C32_AlternatesUnlessOperationFails ==
    (~overlapped /\ StoredAnswered /\ ~OperationFailed)
        => \A u \in 1 .. Len(users) : Alternates(u)

\* Two overlapping handlers of one user and no failure: two user Messages
\* are adjacent, and the completion of one handler was given the inbound
\* Message of the other, whose completion has not been called yet.
C32_Witness ==
    \E h, g \in Handlers :
        /\ h # g /\ overlapped /\ faults = MaxRaceFaults
        /\ calls[h] # <<>> /\ calls[g] = <<>> /\ items[g] # <<>>
        /\ Entry(USER, MessageText(items[g][1].msg)) \in Range(calls[h][1].history)
        /\ \E k \in 1 .. Len(UserRows(calls[h][1].user_id)) - 1 :
              /\ UserRows(calls[h][1].user_id)[k].role = USER
              /\ UserRows(calls[h][1].user_id)[k + 1].role = USER

====
